---- MODULE Spec2Model ----
(***************************************************************************)
(* The ESP32 WiFi/BLE scanner of src/src/main.cpp: the menu/list/detail    *)
(* navigation driven by four debounced buttons, the two device registries  *)
(* filled by the scans, the timed rescan of loop() and the text the draw   *)
(* functions print on the two rows of the LCD.                             *)
(*                                                                         *)
(* Time.  The program reads its two timestamps only through the            *)
(* differences millis() - lastScanTime and millis() - lastDebounceTime.    *)
(* The model keeps these two differences (sinceScan, sinceDebounce), each  *)
(* saturated one past the threshold it is compared with; an assignment     *)
(* lastX = millis() sets the difference to 0.  Time passes in delay(50)    *)
(* and in the blocking scans; printing to the LCD takes no time.           *)
(***************************************************************************)
EXTENDS Integers, Sequences, FiniteSets, TLC

VARIABLES
  currentState,     \* MenuState currentState
  listIndex,        \* int listIndex
  detailPage,       \* int detailPage
  wifiDevices,      \* WiFiDeviceInfo wifiDevices[MAX_WIFI_DEVICES]
  bleDevices,       \* BLEDeviceInfo bleDevices[MAX_BLE_DEVICES]
  wifiDeviceCount,  \* int wifiDeviceCount
  bleDeviceCount,   \* int bleDeviceCount
  sinceScan,        \* millis() - lastScanTime, saturated
  sinceDebounce,    \* millis() - lastDebounceTime, saturated
  lcd,              \* the text printed on row 0 and row 1 since the last lcd.clear()
  pc,               \* the position of loop(): which poll or step comes next
  pressed,          \* what the last step's isButtonPressed did: the button it
                    \* registered, "dropped" (LOW read inside the window) or "none"
  scanned,          \* the radio the last step scanned ("wifi", "ble") or "none"
  radioCount,       \* the count the radio reported to the last step's scan (0 if none)
  report,           \* the whole report of the radio to the last step's scan (<<0, 0>> if none)
  wifiHeld,         \* the WiFi driver holds scan results not yet freed by WiFi.scanDelete()
  backRun,          \* the registered Back presses since the last registered press of
                    \* another button (counted up to 2)
  scanGap,          \* millis() - lastScanTime when the last step's scan began (0 if none)
  before,           \* currentState, listIndex and detailPage when the last step began
  wifiAir,          \* the environment: what WiFi.scanNetworks() may report
  bleAir,           \* the environment: what pBLEScan->start() may report
  userIdle          \* the environment: for how many passes of loop() the user
                    \* may leave all four buttons released

vars == <<currentState, listIndex, detailPage, wifiDevices, bleDevices,
          wifiDeviceCount, bleDeviceCount, sinceScan, sinceDebounce, lcd, pc,
          pressed, scanned, radioCount, report, wifiHeld, backRun, scanGap, before,
          wifiAir, bleAir, userIdle>>

----------------------------------------------------------------------------
(* Program constants *)

MAX_WIFI_DEVICES == 25
MAX_BLE_DEVICES == 25
SCAN_INTERVAL == 10000
DEBOUNCE_DELAY == 200
LOOP_DELAY == 50
SETUP_DELAY == 1000
BLE_SCAN_SECONDS == 2
WIFI_TOTAL_PAGES == 3
BLE_TOTAL_PAGES == 4
SUBSTRING_END == 16

(* Bounds of the model *)

\* |listIndex| on a list screen with an empty registry, where no render wraps it
MaxIndex == 2
\* the time a blocking WiFi.scanNetworks() takes, in ms
WifiScanMs == 3000
\* the lengths of the runs of passes of loop() in which the user presses nothing
ShortIdle == 9
LongIdle == 199

Min(a, b) == IF a < b THEN a ELSE b

----------------------------------------------------------------------------
(* Arduino String and Print *)

Digit(d) == <<"0", "1", "2", "3", "4", "5", "6", "7", "8", "9">>[d + 1]

RECURSIVE NatToStr(_)
NatToStr(n) == IF n < 10 THEN Digit(n) ELSE NatToStr(n \div 10) \o Digit(n % 10)

\* lcd.print(int): the decimal digits, with a sign when negative
IntToStr(n) == IF n < 0 THEN "-" \o NatToStr(-n) ELSE NatToStr(n)

\* String::substring(left, right): the characters [left, right), right cut to the length
substring(s, left, right) == SubSeq(s, left + 1, Min(right, Len(s)))

RECURSIVE trimLeft(_)
trimLeft(s) == IF Len(s) > 0 /\ SubSeq(s, 1, 1) = " " THEN trimLeft(SubSeq(s, 2, Len(s))) ELSE s

RECURSIVE trimRight(_)
trimRight(s) ==
  IF Len(s) > 0 /\ SubSeq(s, Len(s), Len(s)) = " " THEN trimRight(SubSeq(s, 1, Len(s) - 1)) ELSE s

\* String::trim(): leading and trailing whitespace removed
trim(s) == trimRight(trimLeft(s))

----------------------------------------------------------------------------
(* The records and what the radios report *)

AuthModes == <<"WIFI_AUTH_OPEN", "WIFI_AUTH_WEP", "WIFI_AUTH_WPA_PSK", "WIFI_AUTH_WPA2_PSK",
               "WIFI_AUTH_WPA_WPA2_PSK", "WIFI_AUTH_WPA2_ENTERPRISE", "WIFI_AUTH_WPA3_PSK">>

\* a global WiFiDeviceInfo before any scan wrote it (static storage: zeroed)
WiFiDeviceInfo0 == [ssid |-> "", mac |-> "", channel |-> 0, rssi |-> 0, security |-> "WIFI_AUTH_OPEN"]

\* a global BLEDeviceInfo before any scan wrote it
BLEDeviceInfo0 == [name |-> "", address |-> "", rssi |-> 0, txPower |-> 0, serviceUUID |-> ""]

Ssids == <<"", "Home", "  Cafe 21  ", "Airport_Free_WiFi_5G">>

\* the k-th network on the air, as WiFi.SSID/BSSIDstr/channel/RSSI/encryptionType give it
Net(k) ==
  [ssid |-> Ssids[(k % 4) + 1],
   mac |-> "A4:CF:12:0B:7E:" \o Digit((k \div 10) % 10) \o Digit(k % 10),
   channel |-> (k % 13) + 1,
   rssi |-> 0 - (38 + 3 * k),
   security |-> AuthModes[(k % 7) + 1]]

BleNames == <<"Mi Band", " Tag ", "JBL Flip 5 Speaker XL">>

BleAddress(a) == "24:6f:28:a1:b2:" \o Digit((a \div 10) % 10) \o Digit(a % 10)

\* the i-th advertisement of a scan, sent by the device with address number a
Adv(i, a) ==
  [haveName |-> a % 4 # 3,
   name |-> BleNames[(a % 3) + 1],
   address |-> BleAddress(a),
   haveRSSI |-> i % 5 # 4,
   rssi |-> 0 - (45 + 2 * i),
   haveTXPower |-> a % 2 = 0,
   txPower |-> 4 - 8 * (a % 3),
   haveServiceUUID |-> a % 3 # 1,
   serviceUUID |-> "0000180f-0000-1000-8000-00805f9b34fb"]

\* A report of WiFi.scanNetworks() is <<n, off>>: the count n it returns
\* (negative: the scan failed) and the first network of the result list, Net(off).
\* A report of pBLEScan->start() is <<count, m>>: count results, the i-th sent
\* by the device with address number i mod m (m < count: repeated addresses).
BleFound(count, m) == [i \in 1..count |-> Adv(i - 1, (i - 1) % m)]

----------------------------------------------------------------------------
(* Scanning *)

\* scanWiFi with the count taken as reported, not cut to the capacity
scanWiFiUncut(n, off, old) ==
  LET count == IF n > 0 THEN n ELSE 0
  IN [count |-> count, held |-> FALSE,
      devices |-> [i \in 0..(MAX_WIFI_DEVICES - 1) |-> IF i < count THEN Net(off + i) ELSE old[i]]]

\* scanWiFi leaving before WiFi.scanDelete() when the scan found nothing
scanWiFiEarlyReturn(n, off, old) ==
  LET count == IF n > 0 THEN Min(n, MAX_WIFI_DEVICES) ELSE 0
  IN [count |-> count, held |-> n <= 0,
      devices |-> [i \in 0..(MAX_WIFI_DEVICES - 1) |-> IF i < count THEN Net(off + i) ELSE old[i]]]

\* scanWiFi(): n and off are what the radio reports, old the array before the
\* scan; WiFi.scanNetworks() leaves its results held, WiFi.scanDelete() frees them
scanWiFi(n, off, old) ==
  LET count == IF n > 0 THEN Min(n, MAX_WIFI_DEVICES) ELSE 0
  IN [count |-> count, held |-> FALSE,
      devices |-> [i \in 0..(MAX_WIFI_DEVICES - 1) |-> IF i < count THEN Net(off + i) ELSE old[i]]]

\* the duplicate search comparing with the last record only
bleKnownLast(devices, count, address) ==
  count > 0 /\ devices[count - 1].address = address

\* the duplicate search of scanBLE: some record below count has this address
bleKnown(devices, count, address) ==
  \E j \in 0..(count - 1) : devices[j].address = address

bleRecord(device) ==
  [name |-> IF device.haveName THEN device.name ELSE "N/A",
   address |-> device.address,
   rssi |-> IF device.haveRSSI THEN device.rssi ELSE 0,
   txPower |-> IF device.haveTXPower THEN device.txPower ELSE 0,
   serviceUUID |-> IF device.haveServiceUUID THEN device.serviceUUID ELSE "None"]

\* the loop of scanBLE from result i on (found is 1-based, i is the code's i)
RECURSIVE scanBLELoop(_, _, _, _)
scanBLELoop(found, i, devices, count) ==
  IF i < Len(found) /\ count < MAX_BLE_DEVICES
  THEN LET device == found[i + 1]
       IN IF bleKnown(devices, count, device.address)
          THEN scanBLELoop(found, i + 1, devices, count)
          ELSE scanBLELoop(found, i + 1, [devices EXCEPT ![count] = bleRecord(device)], count + 1)
  ELSE [count |-> count, devices |-> devices]

\* scanBLE with its loop starting at the second result
scanBLESkipFirst(found, old) == scanBLELoop(found, 1, old, 0)

\* scanBLE(): found is what the radio reports, old the array before the scan
scanBLE(found, old) == scanBLELoop(found, 0, old, 0)

----------------------------------------------------------------------------
(* Drawing: each draw function gives the indices it leaves and the two rows *)

getWifiSecurityString(security) ==
  CASE security = "WIFI_AUTH_OPEN" -> "Open"
    [] security = "WIFI_AUTH_WEP" -> "WEP"
    [] security = "WIFI_AUTH_WPA_PSK" -> "WPA"
    [] security = "WIFI_AUTH_WPA2_PSK" -> "WPA2"
    [] security = "WIFI_AUTH_WPA_WPA2_PSK" -> "WPA/WPA2"
    [] security = "WIFI_AUTH_WPA2_ENTERPRISE" -> "WPA2-E"
    [] OTHER -> "Unknown"

Drawn(index, page, row0, row1) ==
  [listIndex |-> index, detailPage |-> page, lcd |-> <<row0, row1>>]

drawMainMenu(index, page) ==
  LET i1 == IF index < 0 THEN 1 ELSE index
      i2 == IF i1 > 1 THEN 0 ELSE i1
  IN Drawn(i2, page,
           IF i2 = 0 THEN "-> WiFi Scanner" ELSE "   WiFi Scanner",
           IF i2 = 1 THEN "-> BLE Scanner" ELSE "   BLE Scanner")

\* an array read: outside the array the read is undefined and gives junk
ArrayRead(devices, i, max, junk) == IF i \in 0..(max - 1) THEN devices[i] ELSE junk

\* drawWifiList without the wrap of a negative index
drawWifiListNoWrapUp(index, page, count, devices, junk) ==
  LET row0 == "WiFi Networks " \o IntToStr(count)
      i2 == IF index >= count THEN 0 ELSE index
      stored == ArrayRead(devices, i2, MAX_WIFI_DEVICES, junk).ssid
      ssid == IF Len(stored) = 0 THEN "Hidden Network" ELSE stored
  IN IF count = 0
     THEN Drawn(index, page, row0, "No networks found")
     ELSE Drawn(i2, page, row0, substring("-> " \o ssid, 0, SUBSTRING_END))

drawWifiList(index, page, count, devices, junk) ==
  LET row0 == "WiFi Networks " \o IntToStr(count)
      i1 == IF index < 0 THEN count - 1 ELSE index
      i2 == IF i1 >= count THEN 0 ELSE i1
      stored == ArrayRead(devices, i2, MAX_WIFI_DEVICES, junk).ssid
      ssid == IF Len(stored) = 0 THEN "Hidden Network" ELSE stored
  IN IF count = 0
     THEN Drawn(index, page, row0, "No networks found")
     ELSE Drawn(i2, page, row0, substring("-> " \o ssid, 0, SUBSTRING_END))

\* drawBleList without the wrap of an index past the last entry
drawBleListNoWrapDown(index, page, count, devices, junk) ==
  LET row0 == "BLE Devices   " \o IntToStr(count)
      i1 == IF index < 0 THEN count - 1 ELSE index
      name == ArrayRead(devices, i1, MAX_BLE_DEVICES, junk).name
  IN IF count = 0
     THEN Drawn(index, page, row0, "No devices found")
     ELSE Drawn(i1, page, row0, substring("-> " \o name, 0, SUBSTRING_END))

drawBleList(index, page, count, devices, junk) ==
  LET row0 == "BLE Devices   " \o IntToStr(count)
      i1 == IF index < 0 THEN count - 1 ELSE index
      i2 == IF i1 >= count THEN 0 ELSE i1
      name == ArrayRead(devices, i2, MAX_BLE_DEVICES, junk).name
  IN IF count = 0
     THEN Drawn(index, page, row0, "No devices found")
     ELSE Drawn(i2, page, row0, substring("-> " \o name, 0, SUBSTRING_END))

drawWifiDetails(index, page, devices, junk) ==
  LET p1 == IF page < 0 THEN WIFI_TOTAL_PAGES - 1 ELSE page
      p2 == IF p1 >= WIFI_TOTAL_PAGES THEN 0 ELSE p1
      dev == ArrayRead(devices, index, MAX_WIFI_DEVICES, junk)
      top == trim(IF Len(dev.ssid) = 0 THEN "Hidden Network" ELSE dev.ssid)
      row1 == CASE p2 = 0 -> "RSSI: " \o IntToStr(dev.rssi) \o " dBm"
                [] p2 = 1 -> dev.mac
                [] p2 = 2 -> "Ch: " \o IntToStr(dev.channel) \o " Sec: "
                               \o getWifiSecurityString(dev.security)
  IN Drawn(index, p2, substring(top, 0, SUBSTRING_END), row1)

\* drawBleDetails taking a negative page to page 0
drawBleDetailsUpToFirst(index, page, devices, junk) ==
  LET p1 == IF page < 0 THEN 0 ELSE page
      p2 == IF p1 >= BLE_TOTAL_PAGES THEN 0 ELSE p1
      dev == ArrayRead(devices, index, MAX_BLE_DEVICES, junk)
      top == trim(dev.name)
      row1 == CASE p2 = 0 -> "RSSI: " \o IntToStr(dev.rssi) \o " dBm"
                [] p2 = 1 -> dev.address
                [] p2 = 2 -> "TX Power: " \o IntToStr(dev.txPower) \o " dB"
                [] p2 = 3 -> "UUID:" \o dev.serviceUUID
  IN Drawn(index, p2, substring(top, 0, SUBSTRING_END), row1)

drawBleDetails(index, page, devices, junk) ==
  LET p1 == IF page < 0 THEN BLE_TOTAL_PAGES - 1 ELSE page
      p2 == IF p1 >= BLE_TOTAL_PAGES THEN 0 ELSE p1
      dev == ArrayRead(devices, index, MAX_BLE_DEVICES, junk)
      top == trim(dev.name)
      row1 == CASE p2 = 0 -> "RSSI: " \o IntToStr(dev.rssi) \o " dBm"
                [] p2 = 1 -> dev.address
                [] p2 = 2 -> "TX Power: " \o IntToStr(dev.txPower) \o " dB"
                [] p2 = 3 -> "UUID:" \o dev.serviceUUID
  IN Drawn(index, p2, substring(top, 0, SUBSTRING_END), row1)

\* updateDisplay(): lcd.clear(), then the draw function of the screen
updateDisplay(state, index, page, wc, wd, bc, bd, junk) ==
  CASE state = "MAIN_MENU" -> drawMainMenu(index, page)
    [] state = "WIFI_SCAN_LIST" -> drawWifiList(index, page, wc, wd, junk.wifi)
    [] state = "BLE_SCAN_LIST" -> drawBleList(index, page, bc, bd, junk.ble)
    [] state = "WIFI_DETAILS" -> drawWifiDetails(index, page, wd, junk.wifi)
    [] state = "BLE_DETAILS" -> drawBleDetails(index, page, bd, junk.ble)

----------------------------------------------------------------------------
(* The program state as one record, for the handlers to pass along *)

Program ==
  [currentState |-> currentState, listIndex |-> listIndex, detailPage |-> detailPage,
   wifiDevices |-> wifiDevices, bleDevices |-> bleDevices,
   wifiDeviceCount |-> wifiDeviceCount, bleDeviceCount |-> bleDeviceCount,
   lcd |-> lcd, scanned |-> "none", radioCount |-> 0, report |-> <<0, 0>>,
   wifiHeld |-> wifiHeld, scanMs |-> 0]

Nav == [currentState |-> currentState, listIndex |-> listIndex, detailPage |-> detailPage]

NoJunk == [wifi |-> WiFiDeviceInfo0, ble |-> BLEDeviceInfo0]

\* what a read outside an array may give: junk is chosen only when a detail
\* screen is drawn with listIndex outside the array
Junk(s) ==
  IF s.currentState \in {"WIFI_DETAILS", "BLE_DETAILS"}
       /\ s.listIndex \notin 0..(MAX_WIFI_DEVICES - 1)
  THEN {NoJunk, [wifi |-> Net(3), ble |-> bleRecord(Adv(2, 2))]}
  ELSE {NoJunk}

\* updateDisplay() applied to the program state
display(s, junk) ==
  LET d == updateDisplay(s.currentState, s.listIndex, s.detailPage, s.wifiDeviceCount,
                         s.wifiDevices, s.bleDeviceCount, s.bleDevices, junk)
  IN [s EXCEPT !.listIndex = d.listIndex, !.detailPage = d.detailPage, !.lcd = d.lcd]

\* what the radio of the screen may report to a scan
Outcomes(state) ==
  CASE state = "WIFI_SCAN_LIST" -> wifiAir
    [] state = "BLE_SCAN_LIST" -> bleAir
    [] OTHER -> {<<0, 1>>}

\* refreshScan without "listIndex = 0"
refreshScanKeepIndex(s, o, junk) ==
  LET w == scanWiFi(o[1], o[2], s.wifiDevices)
      b == scanBLE(BleFound(o[1], o[2]), s.bleDevices)
      s1 == CASE s.currentState = "WIFI_SCAN_LIST" ->
                   [s EXCEPT !.wifiDeviceCount = w.count, !.wifiDevices = w.devices,
                             !.scanned = "wifi", !.radioCount = o[1], !.report = o,
                             !.wifiHeld = w.held, !.scanMs = WifiScanMs]
              [] s.currentState = "BLE_SCAN_LIST" ->
                   [s EXCEPT !.bleDeviceCount = b.count, !.bleDevices = b.devices,
                             !.scanned = "ble", !.radioCount = o[1], !.report = o,
                             !.scanMs = BLE_SCAN_SECONDS * 1000]
              [] OTHER -> s
  IN display(s1, junk)

\* refreshScan(): "Scanning...", the scan of the screen's radio, listIndex = 0,
\* lastScanTime = millis() (the caller resets sinceScan), updateDisplay()
refreshScan(s, o, junk) ==
  LET w == scanWiFi(o[1], o[2], s.wifiDevices)
      b == scanBLE(BleFound(o[1], o[2]), s.bleDevices)
      s1 == CASE s.currentState = "WIFI_SCAN_LIST" ->
                   [s EXCEPT !.wifiDeviceCount = w.count, !.wifiDevices = w.devices,
                             !.scanned = "wifi", !.radioCount = o[1], !.report = o,
                             !.wifiHeld = w.held, !.scanMs = WifiScanMs]
              [] s.currentState = "BLE_SCAN_LIST" ->
                   [s EXCEPT !.bleDeviceCount = b.count, !.bleDevices = b.devices,
                             !.scanned = "ble", !.radioCount = o[1], !.report = o,
                             !.scanMs = BLE_SCAN_SECONDS * 1000]
              [] OTHER -> s
  IN display([s1 EXCEPT !.listIndex = 0], junk)

\* the Up/Down body moving listIndex on every screen
scrollPressedAlwaysIndex(s, delta, junk) ==
  display([s EXCEPT !.listIndex = @ + delta], junk)

\* the body of "if (isButtonPressed(BTN_UP))" (delta -1) and of BTN_DOWN (delta 1)
scrollPressed(s, delta, junk) ==
  display(IF s.currentState \in {"WIFI_DETAILS", "BLE_DETAILS"}
          THEN [s EXCEPT !.detailPage = @ + delta]
          ELSE [s EXCEPT !.listIndex = @ + delta], junk)

\* the Select body scanning on MAIN_MENU only when the rescan interval has passed
selectPressedIfDue(s, o, junk) ==
  LET s0 == [s EXCEPT !.detailPage = 0]
      to == IF s0.listIndex = 0 THEN "WIFI_SCAN_LIST" ELSE "BLE_SCAN_LIST"
      s1 == CASE s0.currentState = "MAIN_MENU" /\ sinceScan > 10000 ->
                   refreshScan([s0 EXCEPT !.currentState = to], o, junk)
              [] s0.currentState = "MAIN_MENU" /\ sinceScan <= 10000 ->
                   [s0 EXCEPT !.currentState = to]
              [] s0.currentState = "WIFI_SCAN_LIST" /\ s0.wifiDeviceCount > 0 ->
                   [s0 EXCEPT !.currentState = "WIFI_DETAILS"]
              [] s0.currentState = "BLE_SCAN_LIST" /\ s0.bleDeviceCount > 0 ->
                   [s0 EXCEPT !.currentState = "BLE_DETAILS"]
              [] OTHER -> s0
  IN display(s1, junk)

\* the Select body without the reset of detailPage
selectPressedKeepPage(s, o, junk) ==
  LET s1 == CASE s.currentState = "MAIN_MENU" ->
                   refreshScan([s EXCEPT !.currentState =
                                  IF s.listIndex = 0 THEN "WIFI_SCAN_LIST"
                                                     ELSE "BLE_SCAN_LIST"], o, junk)
              [] s.currentState = "WIFI_SCAN_LIST" /\ s.wifiDeviceCount > 0 ->
                   [s EXCEPT !.currentState = "WIFI_DETAILS"]
              [] s.currentState = "BLE_SCAN_LIST" /\ s.bleDeviceCount > 0 ->
                   [s EXCEPT !.currentState = "BLE_DETAILS"]
              [] OTHER -> s
  IN display(s1, junk)

\* the Select body entering the detail screen of a list whatever its count
selectPressedAnyCount(s, o, junk) ==
  LET s0 == [s EXCEPT !.detailPage = 0]
      s1 == CASE s0.currentState = "MAIN_MENU" ->
                   refreshScan([s0 EXCEPT !.currentState =
                                  IF s0.listIndex = 0 THEN "WIFI_SCAN_LIST"
                                                      ELSE "BLE_SCAN_LIST"], o, junk)
              [] s0.currentState = "WIFI_SCAN_LIST" ->
                   [s0 EXCEPT !.currentState = "WIFI_DETAILS"]
              [] s0.currentState = "BLE_SCAN_LIST" ->
                   [s0 EXCEPT !.currentState = "BLE_DETAILS"]
              [] OTHER -> s0
  IN display(s1, junk)

\* the body of "if (isButtonPressed(BTN_SELECT))"
selectPressed(s, o, junk) ==
  LET s0 == [s EXCEPT !.detailPage = 0]
      s1 == CASE s0.currentState = "MAIN_MENU" ->
                   refreshScan([s0 EXCEPT !.currentState =
                                  IF s0.listIndex = 0 THEN "WIFI_SCAN_LIST"
                                                      ELSE "BLE_SCAN_LIST"], o, junk)
              [] s0.currentState = "WIFI_SCAN_LIST" /\ s0.wifiDeviceCount > 0 ->
                   [s0 EXCEPT !.currentState = "WIFI_DETAILS"]
              [] s0.currentState = "BLE_SCAN_LIST" /\ s0.bleDeviceCount > 0 ->
                   [s0 EXCEPT !.currentState = "BLE_DETAILS"]
              [] OTHER -> s0
  IN display(s1, junk)

\* the Back body without "listIndex = 0"
backPressedKeepIndex(s, junk) ==
  LET s0 == [s EXCEPT !.detailPage = 0]
      s1 == CASE s0.currentState = "WIFI_DETAILS" -> [s0 EXCEPT !.currentState = "WIFI_SCAN_LIST"]
              [] s0.currentState = "BLE_DETAILS" -> [s0 EXCEPT !.currentState = "BLE_SCAN_LIST"]
              [] OTHER -> [s0 EXCEPT !.currentState = "MAIN_MENU"]
  IN display(s1, junk)

\* the Back body going to the main menu from every screen
backPressedToMenu(s, junk) ==
  display([s EXCEPT !.detailPage = 0, !.currentState = "MAIN_MENU", !.listIndex = 0], junk)

\* the Back body resetting listIndex only when it goes to the main menu
backPressedKeepEntry(s, junk) ==
  LET s0 == [s EXCEPT !.detailPage = 0]
      s1 == CASE s0.currentState = "WIFI_DETAILS" -> [s0 EXCEPT !.currentState = "WIFI_SCAN_LIST"]
              [] s0.currentState = "BLE_DETAILS" -> [s0 EXCEPT !.currentState = "BLE_SCAN_LIST"]
              [] OTHER -> [s0 EXCEPT !.currentState = "MAIN_MENU", !.listIndex = 0]
  IN display(s1, junk)

\* the Back body leaving a list screen as it is
backPressedStayOnList(s, junk) ==
  LET s0 == [s EXCEPT !.detailPage = 0]
      s1 == CASE s0.currentState = "WIFI_DETAILS" -> [s0 EXCEPT !.currentState = "WIFI_SCAN_LIST"]
              [] s0.currentState = "BLE_DETAILS" -> [s0 EXCEPT !.currentState = "BLE_SCAN_LIST"]
              [] s0.currentState = "MAIN_MENU" -> s0
              [] OTHER -> s0
  IN display([s1 EXCEPT !.listIndex = 0], junk)

\* the body of "if (isButtonPressed(BTN_BACK))"
backPressed(s, junk) ==
  LET s0 == [s EXCEPT !.detailPage = 0]
      s1 == CASE s0.currentState = "WIFI_DETAILS" -> [s0 EXCEPT !.currentState = "WIFI_SCAN_LIST"]
              [] s0.currentState = "BLE_DETAILS" -> [s0 EXCEPT !.currentState = "BLE_SCAN_LIST"]
              [] OTHER -> [s0 EXCEPT !.currentState = "MAIN_MENU"]
  IN display([s1 EXCEPT !.listIndex = 0], junk)

\* the screen a Select press draws on: after MAIN_MENU the list it enters
selectTarget(s) ==
  IF s.currentState = "MAIN_MENU"
  THEN (IF s.listIndex = 0 THEN "WIFI_SCAN_LIST" ELSE "BLE_SCAN_LIST")
  ELSE "none"

----------------------------------------------------------------------------
(* Time *)

SatScan == SCAN_INTERVAL + 1
SatDebounce == DEBOUNCE_DELAY + 1

\* the rescan condition with >= for >
rescanDueAtInterval(state, since) ==
  state \in {"WIFI_SCAN_LIST", "BLE_SCAN_LIST"} /\ since >= SCAN_INTERVAL

\* the rescan condition naming the BLE list only
rescanDueBleOnly(state, since) ==
  state = "BLE_SCAN_LIST" /\ since > SCAN_INTERVAL

\* the rescan condition of loop()
rescanDue(state, since) ==
  state \in {"WIFI_SCAN_LIST", "BLE_SCAN_LIST"} /\ since > SCAN_INTERVAL

\* isButtonPressed with >= for >
isButtonPressedAtDelay(level) == level = "LOW" /\ sinceDebounce >= DEBOUNCE_DELAY

\* isButtonPressed(pin): level is what digitalRead(pin) gives
isButtonPressed(level) == level = "LOW" /\ sinceDebounce > DEBOUNCE_DELAY

\* the program variables take the values of s; a scan in s sets lastScanTime
\* when it ends, and the time it took has passed since the press
Commit(s, button) ==
  /\ currentState' = s.currentState
  /\ listIndex' = s.listIndex
  /\ detailPage' = s.detailPage
  /\ wifiDevices' = s.wifiDevices
  /\ bleDevices' = s.bleDevices
  /\ wifiDeviceCount' = s.wifiDeviceCount
  /\ bleDeviceCount' = s.bleDeviceCount
  /\ lcd' = s.lcd
  /\ scanned' = s.scanned
  /\ radioCount' = s.radioCount
  /\ report' = s.report
  /\ wifiHeld' = s.wifiHeld
  /\ backRun' = CASE button = "back" -> Min(backRun + 1, 2)
                   [] button \in {"up", "down", "select"} -> 0
                   [] OTHER -> backRun
  /\ pressed' = button
  /\ scanGap' = IF s.scanned = "none" THEN 0 ELSE sinceScan
  /\ before' = Nav
  /\ sinceScan' = IF s.scanned = "none" THEN sinceScan ELSE 0
  /\ sinceDebounce' = Min((IF button \in {"none", "dropped"} THEN sinceDebounce ELSE 0)
                            + s.scanMs, SatDebounce)
  /\ UNCHANGED <<wifiAir, bleAir, userIdle>>

\* no render wraps listIndex on a list screen with an empty registry: there the
\* model stops counting at MaxIndex presses off 0
CanScroll(delta) ==
  \/ currentState = "WIFI_SCAN_LIST" /\ wifiDeviceCount = 0
  \/ currentState = "BLE_SCAN_LIST" /\ bleDeviceCount = 0
  => listIndex + delta \in (0 - MaxIndex)..MaxIndex

\* a poll that registers nothing
NoPress(level) ==
  Commit(Program, IF level = "LOW" THEN "dropped" ELSE "none")

----------------------------------------------------------------------------
(* loop(): handleButtons() polls the four buttons in turn, then the rescan
   check, then delay(50) *)

PollUp ==
  /\ pc = "up"
  /\ pc' = "down"
  /\ \E level \in {"LOW", "HIGH"} :
       IF isButtonPressed(level)
       THEN /\ CanScroll(0 - 1)
            /\ \E junk \in Junk(Program) : Commit(scrollPressed(Program, 0 - 1, junk), "up")
       ELSE NoPress(level)

PollDown ==
  /\ pc = "down"
  /\ pc' = "select"
  /\ \E level \in {"LOW", "HIGH"} :
       IF isButtonPressed(level)
       THEN /\ CanScroll(1)
            /\ \E junk \in Junk(Program) : Commit(scrollPressed(Program, 1, junk), "down")
       ELSE NoPress(level)

PollSelect ==
  /\ pc = "select"
  /\ pc' = "back"
  /\ \E level \in {"LOW", "HIGH"} :
       IF isButtonPressed(level)
       THEN \E o \in Outcomes(selectTarget(Program)), junk \in Junk(Program) :
              Commit(selectPressed(Program, o, junk), "select")
       ELSE NoPress(level)

PollBack ==
  /\ pc = "back"
  /\ pc' = "refresh"
  /\ \E level \in {"LOW", "HIGH"} :
       IF isButtonPressed(level)
       THEN Commit(backPressed(Program, NoJunk), "back")
       ELSE NoPress(level)

\* "Auto-refresh scan lists"
AutoRefresh ==
  /\ pc = "refresh"
  /\ pc' = "delay"
  /\ IF rescanDue(currentState, sinceScan)
     THEN \E o \in Outcomes(currentState) : Commit(refreshScan(Program, o, NoJunk), "none")
     ELSE Commit(Program, "none")

\* how many passes of loop() can go by from here with no rescan due
idleMax(state, since) ==
  IF state \in {"WIFI_SCAN_LIST", "BLE_SCAN_LIST"}
  THEN (IF since > SCAN_INTERVAL THEN 0 ELSE (SCAN_INTERVAL - since) \div LOOP_DELAY)
  ELSE SCAN_INTERVAL \div LOOP_DELAY

\* delay(50), followed by up to k passes of loop() in which every pin reads HIGH
\* and no rescan is due, so that only time passes in them
Delay ==
  /\ pc = "delay"
  /\ pc' = "up"
  /\ \E k \in userIdle :
       LET n == Min(k, idleMax(currentState, sinceScan))
       IN /\ sinceScan' = Min(sinceScan + LOOP_DELAY * (n + 1), SatScan)
          /\ sinceDebounce' = Min(sinceDebounce + LOOP_DELAY * (n + 1), SatDebounce)
  /\ pressed' = "none"
  /\ scanned' = "none"
  /\ radioCount' = 0
  /\ report' = <<0, 0>>
  /\ scanGap' = 0
  /\ before' = Nav
  /\ UNCHANGED <<wifiHeld, backRun>>
  /\ UNCHANGED <<currentState, listIndex, detailPage, wifiDevices, bleDevices,
                 wifiDeviceCount, bleDeviceCount, lcd, wifiAir, bleAir, userIdle>>

\* the state loop() is first called in: setup() has drawn the main menu
InitProgram ==
  /\ currentState = "MAIN_MENU"
  /\ listIndex = 0
  /\ detailPage = 0
  /\ wifiDevices = [i \in 0..(MAX_WIFI_DEVICES - 1) |-> WiFiDeviceInfo0]
  /\ bleDevices = [i \in 0..(MAX_BLE_DEVICES - 1) |-> BLEDeviceInfo0]
  /\ wifiDeviceCount = 0
  /\ bleDeviceCount = 0
  /\ sinceScan = Min(SETUP_DELAY, SatScan)
  /\ sinceDebounce = Min(SETUP_DELAY, SatDebounce)
  /\ lcd = drawMainMenu(0, 0).lcd
  /\ pc = "up"
  /\ pressed = "none"
  /\ scanned = "none"
  /\ radioCount = 0
  /\ report = <<0, 0>>
  /\ wifiHeld = FALSE
  /\ backRun = 0
  /\ scanGap = 0
  /\ before = Nav

\* a few devices around, a user who waits between presses
Init ==
  /\ InitProgram
  /\ wifiAir = {<<0 - 2, 0>>, <<0, 0>>, <<3, 0>>, <<2, 1>>}
  /\ bleAir = {<<0, 1>>, <<3, 2>>, <<4, 4>>}
  /\ userIdle = {ShortIdle, LongIdle}

\* more devices around than the registries hold
InitCrowded ==
  /\ InitProgram
  /\ wifiAir = {<<0 - 1, 0>>, <<26, 0>>, <<40, 2>>}
  /\ bleAir = {<<27, 27>>, <<30, 26>>, <<28, 13>>}
  /\ userIdle = {ShortIdle, LongIdle}

\* a user who may press or hold a button in every pass of loop()
InitTimed ==
  /\ InitProgram
  /\ wifiAir = {<<0, 0>>, <<1, 0>>}
  /\ bleAir = {<<0, 1>>, <<2, 1>>}
  /\ userIdle = {0, LongIdle}

\* many and few devices around by turns, a user who waits long between presses
InitScans ==
  /\ InitProgram
  /\ wifiAir = {<<0 - 2, 0>>, <<0, 0>>, <<2, 1>>, <<3, 0>>, <<25, 0>>, <<26, 3>>, <<40, 2>>}
  /\ bleAir = {<<0, 1>>, <<1, 1>>, <<5, 2>>, <<6, 6>>, <<25, 25>>, <<27, 27>>, <<30, 26>>, <<60, 20>>}
  /\ userIdle = {LongIdle}

Next == PollUp \/ PollDown \/ PollSelect \/ PollBack \/ AutoRefresh \/ Delay

Spec == Init /\ [][Next]_vars

SpecCrowded == InitCrowded /\ [][Next]_vars

SpecTimed == InitTimed /\ [][Next]_vars

SpecScans == InitScans /\ [][Next]_vars

\* the order of the polls and steps of one pass of loop()
NextPc(p) ==
  CASE p = "up" -> "down"
    [] p = "down" -> "select"
    [] p = "select" -> "back"
    [] p = "back" -> "refresh"
    [] p = "refresh" -> "delay"
    [] p = "delay" -> "up"

\* loop() is called again and again and every call it makes returns (a scan
\* ends, delay() ends): from every position the program goes on to the next
SpecLive == Init /\ [][Next]_vars /\ WF_pc(pc' = NextPc(pc))

----------------------------------------------------------------------------
(* The claims *)

Buttons == {"up", "down", "select", "back"}
Lists == {"WIFI_SCAN_LIST", "BLE_SCAN_LIST"}
Details == {"WIFI_DETAILS", "BLE_DETAILS"}
Polls == {"up", "down", "select", "back"}
Registries == <<wifiDeviceCount, wifiDevices, bleDeviceCount, bleDevices>>

\* C1: right after a step that ran updateDisplay() (a registered press or a
\* scan), the index of the drawn screen is in range: 0 or 1 on the main menu,
\* below the count on a list that is not empty, below 3 on the WiFi detail
\* pages and below 4 on the BLE detail pages.
C1_IndexInRangeAfterRender ==
  (pressed \in Buttons \/ scanned # "none") =>
    /\ currentState = "MAIN_MENU" => listIndex \in {0, 1}
    /\ currentState = "WIFI_SCAN_LIST" /\ wifiDeviceCount > 0
         => listIndex \in 0..(wifiDeviceCount - 1)
    /\ currentState = "BLE_SCAN_LIST" /\ bleDeviceCount > 0
         => listIndex \in 0..(bleDeviceCount - 1)
    /\ currentState = "WIFI_DETAILS" => detailPage \in 0..2
    /\ currentState = "BLE_DETAILS" => detailPage \in 0..3

\* Up on entry 0 of a WiFi list of 3: the stored index was -1 when the list was drawn
C1_Witness ==
  /\ pressed = "up"
  /\ before.currentState = "WIFI_SCAN_LIST" /\ before.listIndex = 0
  /\ currentState = "WIFI_SCAN_LIST" /\ wifiDeviceCount = 3 /\ listIndex = 2

C2_Step ==
  (pc = "select" /\ pressed' = "select" /\ currentState = "MAIN_MENU") =>
    /\ listIndex = 0 =>
         /\ currentState' = "WIFI_SCAN_LIST" /\ scanned' = "wifi"
         /\ lcd'[1] = "WiFi Networks " \o IntToStr(wifiDeviceCount')
    /\ listIndex = 1 =>
         /\ currentState' = "BLE_SCAN_LIST" /\ scanned' = "ble"
         /\ lcd'[1] = "BLE Devices   " \o IntToStr(bleDeviceCount')
    /\ listIndex \in {0, 1}
    /\ sinceScan' = 0
    /\ pc' = "back"

\* C2: a Select press registered on the main menu scans in the same step,
\* whatever the time since the last scan: WiFi and the WiFi list at index 0,
\* BLE and the BLE list at index 1; lastScanTime is the end of the scan, the
\* list is drawn with the count the scan found, and Back is polled next.
C2_SelectOnMainMenuScans == [][C2_Step]_vars

\* a forced BLE scan less than 10000 ms after the end of a WiFi scan
C2_Witness ==
  /\ pressed = "select" /\ before.currentState = "MAIN_MENU"
  /\ scanned = "ble" /\ currentState = "BLE_SCAN_LIST"
  /\ wifiDeviceCount > 0 /\ scanGap < 10000

\* C3: no two records below bleDeviceCount have the same address.
C3_NoDuplicateAddress ==
  \A i, j \in 0..(bleDeviceCount - 1) :
    i # j => bleDevices[i].address # bleDevices[j].address

\* a BLE scan of 28 results from 13 addresses
C3_Witness == scanned = "ble" /\ radioCount = 28 /\ bleDeviceCount = 13

\* C4: both counts stay within 0..25.
C4_CountsWithinCapacity ==
  /\ wifiDeviceCount \in 0..25
  /\ bleDeviceCount \in 0..25

\* a WiFi scan reporting more than 25 networks
C4_Witness == scanned = "wifi" /\ radioCount > 25 /\ wifiDeviceCount = 25

C5_Step ==
  /\ pressed' \in Buttons => sinceDebounce > 200
  /\ (pc \in Polls /\ sinceDebounce <= 200) =>
       /\ pressed' \notin Buttons
       /\ UNCHANGED <<currentState, listIndex, detailPage, lcd, Registries>>

\* C5: one debounce window for the four buttons: a press registers only more
\* than 200 ms after the last registered press of any button, and a poll
\* within 200 ms of it registers nothing and changes nothing.
C5_SharedDebounce == [][C5_Step]_vars

\* Down read LOW and dropped in the pass of loop() in which Up registered
C5_Witness == pressed = "dropped" /\ pc = "select" /\ sinceDebounce = 0

C6_Step ==
  /\ scanned' # "none" =>
       \/ pc = "select" /\ pressed' = "select" /\ currentState = "MAIN_MENU"
       \/ pc = "refresh" /\ currentState \in Lists /\ sinceScan > 10000
  /\ Registries' # Registries => scanned' # "none"

\* C6: a scan starts only in a Select press on the main menu or in the rescan
\* check of loop() on a list screen more than 10000 ms after the end of the
\* last scan; the registries change in no other step.
C6_ScanOnlyWhenForcedOrDue == [][C6_Step]_vars

\* a rescan started by loop()
C6_Witness ==
  /\ scanned = "ble" /\ pressed = "none" /\ pc = "delay"
  /\ scanGap > 10000

\* C7: while the screen stays a list screen, the radio of that list is
\* scanned again and again with no press needed, and no rescan check of loop()
\* leaves a list screen with more than 10000 ms since the last scan.
C7_AutomaticRefresh ==
  /\ (currentState = "WIFI_SCAN_LIST") ~> (scanned = "wifi" \/ currentState # "WIFI_SCAN_LIST")
  /\ (currentState = "BLE_SCAN_LIST") ~> (scanned = "ble" \/ currentState # "BLE_SCAN_LIST")
  /\ []((currentState \in Lists /\ pc = "delay") => sinceScan <= 10000)

\* a WiFi rescan started by loop() with no press in the step
C7_Witness ==
  /\ scanned = "wifi" /\ pressed = "none" /\ pc = "delay"
  /\ before.currentState = "WIFI_SCAN_LIST" /\ currentState = "WIFI_SCAN_LIST"

C8_Step ==
  (pc = "back" /\ pressed' = "back" /\ currentState = "MAIN_MENU") =>
    /\ currentState' = "MAIN_MENU"
    /\ listIndex' = listIndex

\* C8 as stated: a Back press on the main menu leaves the screen and the menu
\* index as they were.
C8_BackOnMainMenuNoOp == [][C8_Step]_vars

C8_AmendedStep ==
  (pc = "back" /\ pressed' = "back" /\ currentState = "MAIN_MENU") =>
    /\ currentState' = "MAIN_MENU"
    /\ listIndex' = 0
    /\ lcd' = <<"-> WiFi Scanner", "   BLE Scanner">>
    /\ scanned' = "none"
    /\ UNCHANGED Registries

\* C8 amended: a Back press on the main menu leaves the screen the main menu and
\* sets the menu index to 0, so the cursor moves to "WiFi Scanner" when it was
\* on "BLE Scanner"; nothing is scanned.
C8_BackOnMainMenuResetsIndex == [][C8_AmendedStep]_vars

\* Back on the main menu with the cursor on "BLE Scanner"
C8_Witness ==
  /\ pressed = "back"
  /\ before.currentState = "MAIN_MENU" /\ before.listIndex = 1
  /\ currentState = "MAIN_MENU" /\ listIndex = 0

\* C9: after a registered Select or Back press detailPage is 0, and a detail
\* screen is entered on page 0, the RSSI page.
C9_DetailPageReset ==
  /\ pressed \in {"select", "back"} => detailPage = 0
  /\ (currentState \in Details /\ before.currentState \notin Details) =>
       /\ detailPage = 0
       /\ SubSeq(lcd[2], 1, 6) = "RSSI: "

\* Select on a WiFi detail screen showing another page than 0
C9_Witness ==
  /\ pressed = "select"
  /\ before.currentState = "WIFI_DETAILS" /\ before.detailPage = 2
  /\ currentState = "WIFI_DETAILS" /\ detailPage = 0

\* C10: each of the two rows printed on the LCD is at most 16 characters long.
C10_RowsFitDisplay ==
  /\ Len(lcd[1]) <= 16
  /\ Len(lcd[2]) <= 16

\* C11: a WiFi scan replaces the WiFi registry by the radio's report: the count
\* is min(n, 25) for n > 0 and 0 otherwise, record i below the count is the
\* radio's i-th result in the radio's order, and the driver's results are freed
\* whatever n was.
C11_WifiRegistryIsReport ==
  scanned = "wifi" =>
    /\ wifiDeviceCount = (IF report[1] > 0 THEN Min(report[1], MAX_WIFI_DEVICES) ELSE 0)
    /\ \A i \in 0..(wifiDeviceCount - 1) : wifiDevices[i] = Net(report[2] + i)
    /\ ~wifiHeld

\* a scan of two networks after one of three: the two are the new ones, the
\* third record of the earlier scan lies beyond the count
C11_Witness ==
  /\ scanned = "wifi" /\ report = <<2, 1>>
  /\ wifiDeviceCount = 2 /\ wifiDevices[0] = Net(1) /\ wifiDevices[1] = Net(2)
  /\ wifiDevices[2] = Net(2)
  /\ ~wifiHeld

\* C12: a BLE scan replaces the BLE registry by the first occurrences of the
\* distinct addresses, in the order of discovery, cut after the 25th; what is
\* discovered after that is dropped, new address or not.
C12_BleRegistryIsFirstOccurrences ==
  scanned = "ble" =>
    LET found == BleFound(report[1], report[2])
        first == {i \in 1..Len(found) :
                    \A j \in 1..(i - 1) : found[j].address # found[i].address}
        rank(i) == Cardinality({j \in first : j < i})
    IN /\ bleDeviceCount = Min(Cardinality(first), MAX_BLE_DEVICES)
       /\ \A i \in first : rank(i) < MAX_BLE_DEVICES =>
             bleDevices[rank(i)] = bleRecord(found[i])

\* 30 advertisements of 26 devices: the 26th device is dropped, and so are the
\* repeated advertisements after it
C12_Witness ==
  /\ scanned = "ble" /\ report = <<30, 26>>
  /\ bleDeviceCount = 25
  /\ bleDevices[24].address = BleAddress(24)

C13_Step ==
  /\ (pc = "select" /\ pressed' = "select" /\ currentState = "WIFI_SCAN_LIST") =>
       /\ currentState' = (IF wifiDeviceCount > 0 THEN "WIFI_DETAILS" ELSE "WIFI_SCAN_LIST")
       /\ scanned' = "none" /\ UNCHANGED Registries
  /\ (pc = "select" /\ pressed' = "select" /\ currentState = "BLE_SCAN_LIST") =>
       /\ currentState' = (IF bleDeviceCount > 0 THEN "BLE_DETAILS" ELSE "BLE_SCAN_LIST")
       /\ scanned' = "none" /\ UNCHANGED Registries
  /\ (currentState' = "WIFI_DETAILS" /\ currentState # "WIFI_DETAILS") =>
       /\ pc = "select" /\ pressed' = "select"
       /\ currentState = "WIFI_SCAN_LIST" /\ wifiDeviceCount > 0
  /\ (currentState' = "BLE_DETAILS" /\ currentState # "BLE_DETAILS") =>
       /\ pc = "select" /\ pressed' = "select"
       /\ currentState = "BLE_SCAN_LIST" /\ bleDeviceCount > 0

\* C13: a Select press registered on a list screen enters the detail screen of
\* that list exactly when its registry is not empty; on an empty list the screen
\* stays the list; the press scans nothing either way; and no other step enters
\* a detail screen.
C13_SelectOnList == [][C13_Step]_vars

\* Select on the BLE list after a scan that found nothing: the list stays
C13_Witness ==
  /\ pressed = "select"
  /\ before.currentState = "BLE_SCAN_LIST" /\ bleDeviceCount = 0
  /\ currentState = "BLE_SCAN_LIST" /\ scanned = "none"

C14_Step ==
  (pc = "back" /\ pressed' = "back") =>
    /\ currentState = "WIFI_DETAILS" => currentState' = "WIFI_SCAN_LIST"
    /\ currentState = "BLE_DETAILS" => currentState' = "BLE_SCAN_LIST"
    /\ currentState \in Lists =>
         /\ currentState' = "MAIN_MENU" /\ listIndex' = 0
         /\ lcd' = <<"-> WiFi Scanner", "   BLE Scanner">>
    /\ scanned' = "none" /\ UNCHANGED Registries
    /\ sinceScan' = sinceScan

\* C14: a registered Back press leads from a detail screen to the list of the
\* same radio and from a list to the main menu with menu index 0; it changes
\* neither registry and scans nothing.
C14_BackOneLevelUp == [][C14_Step]_vars

\* Back on a BLE detail screen
C14_Witness ==
  /\ pressed = "back"
  /\ before.currentState = "BLE_DETAILS"
  /\ currentState = "BLE_SCAN_LIST" /\ bleDeviceCount > 0 /\ scanned = "none"

\* C15: the index a render leaves is the stored index modulo the size of the
\* screen: after a registered Up or Down press the menu index is the index
\* before the press -1 or +1 modulo 2, the index of a list that is not empty
\* the same modulo its count, the page of a WiFi detail screen modulo 3 and
\* that of a BLE detail screen modulo 4.
C15_WrapIsModulus ==
  pressed \in {"up", "down"} =>
    LET delta == IF pressed = "up" THEN 0 - 1 ELSE 1
        index == before.listIndex + delta
        page == before.detailPage + delta
    IN /\ currentState = "MAIN_MENU" => listIndex = index % 2
       /\ currentState = "WIFI_SCAN_LIST" /\ wifiDeviceCount > 0
            => listIndex = index % wifiDeviceCount
       /\ currentState = "BLE_SCAN_LIST" /\ bleDeviceCount > 0
            => listIndex = index % bleDeviceCount
       /\ currentState = "WIFI_DETAILS" => detailPage = page % 3
       /\ currentState = "BLE_DETAILS" => detailPage = page % 4

\* Down on the last page of a BLE detail screen shows page 0
C15_Witness ==
  /\ pressed = "down"
  /\ before.currentState = "BLE_DETAILS" /\ before.detailPage = 3
  /\ currentState = "BLE_DETAILS" /\ detailPage = 0

C16_Step ==
  \A delta \in {0 - 1, 1} :
    (pressed' = (IF delta = 1 THEN "down" ELSE "up")) =>
      /\ pc = pressed'
      /\ UNCHANGED <<currentState, Registries, sinceScan>>
      /\ scanned' = "none"
      /\ currentState \in Details =>
           /\ listIndex' = listIndex
           /\ detailPage' = (detailPage + delta)
                               % (IF currentState = "WIFI_DETAILS" THEN 3 ELSE 4)
      /\ currentState \notin Details =>
           /\ detailPage' = detailPage
           /\ (listIndex' = listIndex + delta
                 \/ listIndex' = (IF delta = 1 THEN 0
                                  ELSE IF currentState = "MAIN_MENU" THEN 1
                                  ELSE IF currentState = "WIFI_SCAN_LIST" THEN wifiDeviceCount - 1
                                  ELSE bleDeviceCount - 1))

\* C16: a registered Up or Down press changes detailPage alone on a detail
\* screen (by -1 or +1, wrapped) and listIndex alone on the main menu and the
\* lists (by -1 or +1, or wrapped to the other end); the screen, both
\* registries and lastScanTime stay as they were, and nothing is scanned.
C16_ScrollChangesOneCounter == [][C16_Step]_vars

\* Down on page 0 of the details of the third WiFi network
C16_Witness ==
  /\ pressed = "down"
  /\ before.currentState = "WIFI_DETAILS" /\ before.detailPage = 0 /\ before.listIndex = 2
  /\ currentState = "WIFI_DETAILS" /\ detailPage = 1 /\ listIndex = 2

\* C17: on the WiFi detail screen the WiFi registry is not empty and listIndex
\* is the index of one of its counted records; the same on the BLE detail
\* screen with the BLE registry.
C17_DetailIndexInRegistry ==
  /\ currentState = "WIFI_DETAILS" =>
       wifiDeviceCount > 0 /\ listIndex \in 0..(wifiDeviceCount - 1)
  /\ currentState = "BLE_DETAILS" =>
       bleDeviceCount > 0 /\ listIndex \in 0..(bleDeviceCount - 1)

\* the details of the last of two networks, found by a rescan after a scan
\* that had found three
C17_Witness ==
  /\ currentState = "WIFI_DETAILS"
  /\ wifiDeviceCount = 2 /\ listIndex = 1
  /\ wifiDevices[0] = Net(1) /\ wifiDevices[2] = Net(2)

\* C18: after every scan, forced by Select or started by the timer, listIndex
\* is 0, lastScanTime is the time the scan ended, and the list is drawn at its
\* first entry, or with the message of an empty list.
C18_ScanResetsIndex ==
  /\ scanned # "none" => listIndex = 0 /\ sinceScan = 0
  /\ scanned = "wifi" =>
       /\ currentState = "WIFI_SCAN_LIST"
       /\ lcd[2] = (IF wifiDeviceCount = 0 THEN "No networks found"
                    ELSE IF wifiDevices[0].ssid = "" THEN "-> Hidden Networ"
                    ELSE substring("-> " \o wifiDevices[0].ssid, 0, 16))
  /\ scanned = "ble" =>
       /\ currentState = "BLE_SCAN_LIST"
       /\ lcd[2] = (IF bleDeviceCount = 0 THEN "No devices found"
                    ELSE substring("-> " \o bleDevices[0].name, 0, 16))

\* a timed rescan while the list showed its third entry
C18_Witness ==
  /\ scanned = "wifi" /\ pressed = "none"
  /\ before.currentState = "WIFI_SCAN_LIST" /\ before.listIndex = 2
  /\ wifiDeviceCount > 0 /\ listIndex = 0

\* C19: after every registered Back press listIndex is 0, whatever the screen
\* was; a list reached by Back from a detail screen is drawn at its first
\* entry.
C19_BackResetsIndex ==
  pressed = "back" =>
    /\ listIndex = 0
    /\ before.currentState = "WIFI_DETAILS" =>
         lcd = <<"WiFi Networks " \o IntToStr(wifiDeviceCount),
                 substring("-> " \o (IF wifiDevices[0].ssid = "" THEN "Hidden Network"
                                     ELSE wifiDevices[0].ssid), 0, 16)>>
    /\ before.currentState = "BLE_DETAILS" =>
         lcd = <<"BLE Devices   " \o IntToStr(bleDeviceCount),
                 substring("-> " \o bleDevices[0].name, 0, 16)>>

\* Back from the details of the third WiFi network
C19_Witness ==
  /\ pressed = "back"
  /\ before.currentState = "WIFI_DETAILS" /\ before.listIndex = 2
  /\ currentState = "WIFI_SCAN_LIST" /\ listIndex = 0

\* C20: once two Back presses have been registered with no registered press of
\* another button between them (timed rescans may have run between them), the
\* screen is the main menu with listIndex 0 and detailPage 0, and it stays so
\* until another button is registered; after one Back press registered on a
\* list or on the main menu the same holds; and whenever Back is polled after
\* the debounce interval, a press of it can be registered.
C20_TwoBacksReachMainMenu ==
  /\ backRun = 2 =>
       currentState = "MAIN_MENU" /\ listIndex = 0 /\ detailPage = 0
  /\ (pressed = "back" /\ before.currentState \notin Details) =>
       currentState = "MAIN_MENU" /\ listIndex = 0 /\ detailPage = 0
  /\ (pc = "back" /\ sinceDebounce > DEBOUNCE_DELAY) =>
       ENABLED (PollBack /\ pressed' = "back")

\* the second of two Back presses, the first on the BLE detail screen, with a
\* timed rescan of the list between them
C20_Witness ==
  /\ backRun = 2 /\ pressed = "back"
  /\ before.currentState = "BLE_SCAN_LIST" /\ bleDeviceCount = 0
  /\ currentState = "MAIN_MENU"

====
